---- MODULE Spec2Model ----
(***************************************************************************)
(* Model of the lint orchestration engine of src/linter.ts (class Linter): *)
(* rule dispatch, suppression-aware failure collection, the per-rule fix   *)
(* sweep, severity stamping and the accumulated session result.            *)
(*                                                                         *)
(* Texts are sequences of one-character strings.  Rules, the suppression   *)
(* filter, the replacement merger, the parser and the warning helper live  *)
(* outside linter.ts and are modelled at their interface.                  *)
(***************************************************************************)
EXTENDS Integers, Sequences, FiniteSets, TLC

(***************************************************************************)
(* Bounds                                                                  *)
(***************************************************************************)
\* number of lint() calls explored in one behaviour
MaxLints == 2

(***************************************************************************)
(* Files and paths                                                         *)
(***************************************************************************)
MainFile == "f.ts"
OtherFile == "g.ts"
\* another spelling of OtherFile, the one rule X reports under
OtherAlias == "./g.ts"
\* canonical paths: the keys of the file system, the names passed to lint()
Files == {MainFile, OtherFile}

\* path.resolve: different spellings of one path become the same path
PathResolve(p) == IF p = OtherAlias THEN OtherFile ELSE p

\* this.program === undefined
NoProgram == [defined |-> FALSE, names |-> {}, text |-> [p \in Files |-> <<>>]]

\* the texts a caller passes to lint() as `source`, besides the file's own
Sources ==
    { <<"a", "b">>, <<"x", "b">>, <<"b", "#", "a">> }

InitialDisk == [p \in Files |-> IF p = MainFile THEN <<"a", "b">> ELSE <<"x", "b">>]

(***************************************************************************)
(* Small helpers                                                           *)
(***************************************************************************)
Min(a, b) == IF a < b THEN a ELSE b
Max(a, b) == IF a < b THEN b ELSE a
Clamp(n, len) == Max(0, Min(n, len))

RECURSIVE FlatMapIdx(_, _, _)
\* concatenation of F[1] .. F[n], F a function on 1..n to sequences
FlatMapIdx(F, i, n) == IF i > n THEN <<>> ELSE F[i] \o FlatMapIdx(F, i + 1, n)

\* flatMap of utils: map every element to a sequence and concatenate
flatMap(seq, Op(_)) ==
    FlatMapIdx([i \in 1..Len(seq) |-> Op(seq[i])], 1, Len(seq))

Some(seq, P(_)) == \E i \in 1..Len(seq) : P(seq[i])
Filter(seq, P(_)) == SelectSeq(seq, P)
Range(seq) == {seq[i] : i \in 1..Len(seq)}

(***************************************************************************)
(* String.prototype.substring with its clamping of the two indices         *)
(***************************************************************************)
Substring(s, from, to) ==
    LET a == Clamp(from, Len(s))
        b == Clamp(to, Len(s))
    IN  SubSeq(s, Min(a, b) + 1, Max(a, b))

(***************************************************************************)
(* Replacement / Fix merger (language/rule/rule.ts)                        *)
(***************************************************************************)
\* Replacement.apply: cut [start, start+length) out of content, put text in
ReplacementApply(r, content) ==
    Substring(content, 0, r.start) \o r.text
        \o Substring(content, r.start + r.length, Len(content))

ReplacementEnd(r) == r.start + r.length

RECURSIVE InsertByEnd(_, _)
\* insert r into a sequence already ordered by descending end, after its equals
InsertByEnd(r, sorted) ==
    IF sorted = <<>> THEN <<r>>
    ELSE IF ReplacementEnd(Head(sorted)) >= ReplacementEnd(r)
         THEN <<Head(sorted)>> \o InsertByEnd(r, Tail(sorted))
         ELSE <<r>> \o sorted

RECURSIVE SortByEndDesc(_)
SortByEndDesc(rs) ==
    IF rs = <<>> THEN <<>>
    ELSE LET n == Len(rs)
         IN  InsertByEnd(rs[n], SortByEndDesc(SubSeq(rs, 1, n - 1)))

RECURSIVE ApplyInOrder(_, _)
ApplyInOrder(content, rs) ==
    IF rs = <<>> THEN content
    ELSE ApplyInOrder(ReplacementApply(Head(rs), content), Tail(rs))

\* Replacement.applyAll: from the end of the text towards its start
ReplacementApplyAll(content, replacements) ==
    ApplyInOrder(content, SortByEndDesc(replacements))

Identity(x) == x

\* Replacement.applyFixes: all replacements of all the fixes, merged at once
ReplacementApplyFixes(content, fixes) ==
    ReplacementApplyAll(content, flatMap(fixes, Identity))

(***************************************************************************)
(* Source views, failures                                                  *)
(***************************************************************************)
\* a parsed file: its name and the text it was parsed from
SourceView(fileName, text) == [found |-> TRUE, fileName |-> fileName, text |-> text]
\* no view: program.getSourceFile() returned undefined
NoView == [found |-> FALSE, fileName |-> "", text |-> <<>>]

Unset == "unset"
NoFix == <<>>

RuleFailure(ruleName, fileName, start, end, fix) ==
    [ruleName |-> ruleName, fileName |-> fileName, start |-> start,
     end |-> end, fix |-> fix, ruleSeverity |-> Unset]

hasFix(f) == f.fix # NoFix
Replacement(start, length, text) == [start |-> start, length |-> length, text |-> text]

\* a Replacement together with the path of the file its author means it for
ReplacementIn(fileName, start, length, text) ==
    [file |-> fileName] @@ Replacement(start, length, text)

\* positions (0-based) of character ch in text, ascending
Positions(text, ch) ==
    LET F == [i \in 1..Len(text) |-> IF text[i] = ch THEN <<i - 1>> ELSE <<>>]
    IN  FlatMapIdx(F, 1, Len(text))

(***************************************************************************)
(* State                                                                   *)
(***************************************************************************)
VARIABLES
    disk,            \* the file system: canonical path -> text
    options,         \* this.options: [fix, formatter]
    program,         \* this.program: NoProgram, or the parsed files and their texts
    failures,        \* this.failures
    fixes,           \* this.fixes
    shownWarnings,   \* messages showWarningOnce has already shown (process-wide)
    console,         \* console.warn: message -> number of times printed
    pc,              \* position of the running lint(): "idle", "sweep", "recompute"
    sourceFileName,  \* lint: fileName
    sourceFile,      \* lint / applyAllFixes: the current SourceView
    source,          \* applyAllFixes: the in-memory working text
    enabledRules,    \* lint: the rules enabled by the configuration
    fileFailures,    \* lint: the original post-suppression batch
    ruleIdx,         \* applyAllFixes: index of the next rule of the sweep
    result,          \* what the last getResult() returned (or threw)
    nLints,          \* lint() calls so far
    reportedBy,      \* history: for each accumulated failure, the configuration of
                     \* the invocation that reported it
    inv,             \* history: the running or last lint() invocation
    prev,            \* history: the invocation before it
    workers,         \* concurrent invocations: for each, its Linter and its
                     \* position in lint(), at the grain of single file operations
    events           \* history: the file reads and writes of the workers, in order

vars == <<disk, options, program, failures, fixes, shownWarnings, console, pc,
          sourceFileName, sourceFile, source, enabledRules, fileFailures,
          ruleIdx, result, nLints, reportedBy, inv, prev, workers, events>>

(***************************************************************************)
(* Rules (plug-ins; each is identified by its name)                        *)
(*   A  deletes every "a"                   (fix shortens the text)        *)
(*   B  turns every "b" into "a"            (fix creates work for A)       *)
(*   X  for every "x" reports a failure in OtherFile and rewrites its      *)
(*      first character to "c"              (cross-file fix)               *)
(*   Z  for every "b" reports a failure in OtherFile and rewrites its      *)
(*      second character to "c"             (cross-file fix)               *)
(*   D  for every "x" reports a failure in the linted file; its one fix    *)
(*      holds a replacement meant for the linted file (the "x" becomes     *)
(*      "c") and one meant for OtherFile (its second character becomes     *)
(*      "c")                                (fix naming two files)         *)
(*   N  reports every "a", no fix                                          *)
(*   Y  type-aware: reports every "b", no fix, only when given a program   *)
(*   T  throws an Error on every execution                                 *)
(*   S  throws a value that is not an Error on every execution             *)
(*   M  defective: reports every "a" under a rule name nobody enabled      *)
(***************************************************************************)
Rule(name, severity) == [ruleName |-> name, ruleSeverity |-> severity]

isTypedRule(rule) == rule.ruleName = "Y"

ThrowingRules == {"T", "S"}

\* what a rule throws: whether it is an Error, and its message / string form
Thrown(rule) ==
    IF rule.ruleName = "T" THEN [isError |-> TRUE, message |-> "boom"]
    ELSE [isError |-> FALSE, message |-> "oops"]

OnEach(text, ch, Mk(_)) ==
    LET ps == Positions(text, ch)
    IN  [i \in 1..Len(ps) |-> Mk(ps[i])]

\* the failures a rule computes from a SourceView when it does not throw
RuleBody(rule, sf, withProgram) ==
    LET n == rule.ruleName
    IN  CASE n = "A" ->
               OnEach(sf.text, "a", LAMBDA p :
                   RuleFailure("A", sf.fileName, p, p + 1, <<ReplacementIn(sf.fileName, p, 1, <<>>)>>))
          [] n = "B" ->
               OnEach(sf.text, "b", LAMBDA p :
                   RuleFailure("B", sf.fileName, p, p + 1, <<ReplacementIn(sf.fileName, p, 1, <<"a">>)>>))
          [] n = "X" ->
               OnEach(sf.text, "x", LAMBDA p :
                   RuleFailure("X", OtherAlias, 0, 1, <<ReplacementIn(OtherAlias, 0, 1, <<"c">>)>>))
          [] n = "Z" ->
               OnEach(sf.text, "b", LAMBDA p :
                   RuleFailure("Z", OtherAlias, 1, 2, <<ReplacementIn(OtherAlias, 1, 1, <<"c">>)>>))
          [] n = "D" ->
               OnEach(sf.text, "x", LAMBDA p :
                   RuleFailure("D", sf.fileName, p, p + 1,
                       <<ReplacementIn(sf.fileName, p, 1, <<"c">>),
                         ReplacementIn(OtherAlias, 1, 1, <<"c">>)>>))
          [] n = "N" ->
               OnEach(sf.text, "a", LAMBDA p :
                   RuleFailure("N", sf.fileName, p, p + 1, NoFix))
          [] n = "Y" ->
               IF withProgram
               THEN OnEach(sf.text, "b", LAMBDA p :
                        RuleFailure("Y", sf.fileName, p, p + 1, NoFix))
               ELSE <<>>
          [] n = "M" ->
               OnEach(sf.text, "a", LAMBDA p :
                   RuleFailure("zz", sf.fileName, p, p + 1, NoFix))
          [] OTHER -> <<>>

\* the configurations a caller passes to lint(): enabled rules, in order
Configurations ==
    { <<>>,
      <<Rule("A", "error"), Rule("B", "warning")>>,
      <<Rule("T", "error"), Rule("B", "error"), Rule("A", "warning"),
        Rule("D", "error")>>,
      <<Rule("S", "warning"), Rule("X", "error"), Rule("N", "warning")>>,
      <<Rule("M", "error"), Rule("Y", "warning"), Rule("B", "warning")>> }

\* loadRules: severity "off" rules are not loaded; every listed rule is enabled
getEnabledRules(configuration) == configuration

(***************************************************************************)
(* Suppression filter (enableDisableRules.ts): a "#" in the view's text    *)
(* disables every failure that starts after it.                            *)
(***************************************************************************)
IsDisabled(sf, f) ==
    \E i \in 1..Len(sf.text) : sf.text[i] = "#" /\ f.start > i - 1

removeDisabledFailures(sf, fs) ==
    Filter(fs, LAMBDA f : ~IsDisabled(sf, f))

(***************************************************************************)
(* Linter.applyRule, and the warnings it prints                            *)
(***************************************************************************)
\* variant: no try/catch result: a crash of the rule is reported as a failure
applyRule_leaky(rule, sf) ==
    IF rule.ruleName \in ThrowingRules
    THEN <<RuleFailure(rule.ruleName, sf.fileName, 0, 0, NoFix)>>
    ELSE IF program.defined /\ isTypedRule(rule)
         THEN RuleBody(rule, sf, TRUE)
         ELSE RuleBody(rule, sf, FALSE)

applyRule(rule, sf) ==
    IF rule.ruleName \in ThrowingRules
    THEN <<>>
    ELSE IF program.defined /\ isTypedRule(rule)
         THEN RuleBody(rule, sf, TRUE)
         ELSE RuleBody(rule, sf, FALSE)

WarningText(t) == <<"Warning: ", t.message>>

\* the warning state [shown, console] after one execution of rule
applyRuleWarn(rule, w) ==
    IF rule.ruleName \notin ThrowingRules THEN w
    ELSE LET t == Thrown(rule)
             msg == WarningText(t)
             printed == [w.console EXCEPT ![msg] = @ + 1]
         IN  IF t.isError
             THEN IF msg \in w.shown
                  THEN w
                  ELSE [shown |-> w.shown \cup {msg}, console |-> printed]
             ELSE [shown |-> w.shown, console |-> printed]

RECURSIVE applyRulesWarn(_, _)
\* the warning state after executing rules one after the other
applyRulesWarn(rules, w) ==
    IF rules = <<>> THEN w
    ELSE applyRulesWarn(Tail(rules), applyRuleWarn(Head(rules), w))

WarningMessages == {WarningText(Thrown(Rule(n, "error"))) : n \in ThrowingRules}

(***************************************************************************)
(* Linter.getAllFailures                                                   *)
(***************************************************************************)
\* variant: the suppression filter is left out
getAllFailures_unfiltered(sf, rules) ==
    flatMap(rules, LAMBDA rule : applyRule(rule, sf))

getAllFailures(sf, rules) ==
    removeDisabledFailures(sf, flatMap(rules, LAMBDA rule : applyRule(rule, sf)))

(***************************************************************************)
(* Linter.getSourceFile: NoView stands for the FatalError it throws        *)
(***************************************************************************)
\* variant: a file the program does not hold is parsed from the text passed in
getSourceFile_fallback(fileName, text) ==
    IF program.defined /\ PathResolve(fileName) \in program.names
    THEN SourceView(PathResolve(fileName), program.text[PathResolve(fileName)])
    ELSE SourceView(fileName, text)

getSourceFile(fileName, text) ==
    IF program.defined
    THEN IF PathResolve(fileName) \notin program.names
         THEN NoView
         ELSE SourceView(PathResolve(fileName), program.text[PathResolve(fileName)])
    ELSE SourceView(fileName, text)

(***************************************************************************)
(* createMultiMap and Linter.applyFixes                                    *)
(***************************************************************************)
RECURSIVE Keys(_, _)
\* the distinct file names of the failures, in order of first appearance
Keys(fs, seen) ==
    IF fs = <<>> THEN <<>>
    ELSE IF Head(fs).fileName \in seen
         THEN Keys(Tail(fs), seen)
         ELSE <<Head(fs).fileName>> \o Keys(Tail(fs), seen \cup {Head(fs).fileName})

\* variant: map.set(k, [v]) for every pair, a key keeps only its last fix
createMultiMap_overwriting(fs) ==
    LET ks == Keys(fs, {})
    IN  [i \in 1..Len(ks) |->
            [filePath |-> ks[i],
             fileFixes |-> LET mine == Filter(fs, LAMBDA f : f.fileName = ks[i])
                           IN  <<mine[Len(mine)].fix>>]]

\* createMultiMap(fixableFailures, f => [f.getFileName(), f.getFix()]):
\* the keys in insertion order, and for each key its fixes in input order
createMultiMap(fs) ==
    LET ks == Keys(fs, {})
    IN  [i \in 1..Len(ks) |->
            [filePath |-> ks[i],
             fileFixes |-> LET mine == Filter(fs, LAMBDA f : f.fileName = ks[i])
                           IN  [j \in 1..Len(mine) |-> mine[j].fix]]]

\* variant: every entry is taken for the linted file
isLintedFile_always(filePath, sourceFilePath) == TRUE

\* line 181: is this entry's file the file being linted?
isLintedFile(filePath, sourceFilePath) ==
    PathResolve(filePath) = PathResolve(sourceFilePath)

\* line 185: fs.readFileSync(filePath, "utf-8")
readFileSync(fsys, filePath) == fsys[PathResolve(filePath)]

\* variant: the write does not reach the file
writeFileSync_dropped(fsys, filePath, data) == fsys

\* line 188: fs.writeFileSync(filePath, fileNewSource, "utf-8")
writeFileSync(fsys, filePath, data) == [fsys EXCEPT ![PathResolve(filePath)] = data]

RECURSIVE applyFixesEach(_, _, _, _)
\* the forEach of applyFixes over the entries of the map:
\* st = [source, disk] threaded through the entries
applyFixesEach(sourceFilePath, entries, i, st) ==
    IF i > Len(entries) THEN st
    ELSE LET e == entries[i]
             same == isLintedFile(e.filePath, sourceFilePath)
             fileNewSource ==
                 IF same THEN ReplacementApplyFixes(st.source, e.fileFixes)
                 ELSE ReplacementApplyFixes(readFileSync(st.disk, e.filePath), e.fileFixes)
         IN  applyFixesEach(sourceFilePath, entries, i + 1,
                 [source |-> IF same THEN fileNewSource ELSE st.source,
                  disk |-> writeFileSync(st.disk, e.filePath, fileNewSource)])

\* Linter.applyFixes: returns the new working text and the new file system
applyFixes(sourceFilePath, text, fixableFailures, fsys) ==
    applyFixesEach(sourceFilePath, createMultiMap(fixableFailures), 1,
                   [source |-> text, disk |-> fsys])

(***************************************************************************)
(* Severity stamping (lint, "add rule severity to failures")               *)
(***************************************************************************)
Undefined == "undefined"

\* ruleSeverityMap.get(name): a Map built from pairs keeps the last pair of a key
ruleSeverityMap(rules, name) ==
    IF \E i \in 1..Len(rules) : rules[i].ruleName = name
    THEN LET i == CHOOSE k \in 1..Len(rules) :
                    /\ rules[k].ruleName = name
                    /\ \A m \in 1..Len(rules) : rules[m].ruleName = name => m <= k
         IN  rules[i].ruleSeverity
    ELSE Undefined

\* variant: a missing severity is not noticed, the failure is let through
severityNotFound_ignored(rules, fs) == FALSE

\* TRUE when the loop over the batch throws "Severity for rule ... not found"
severityNotFound(rules, fs) ==
    Some(fs, LAMBDA f : ruleSeverityMap(rules, f.ruleName) = Undefined)

\* variant: the severity is looked up but not recorded on the failure
setRuleSeverity_dropped(f, severity) == f

setRuleSeverity(f, severity) == [f EXCEPT !.ruleSeverity = severity]

stampSeverity(rules, fs) ==
    [i \in 1..Len(fs) |-> setRuleSeverity(fs[i], ruleSeverityMap(rules, fs[i].ruleName))]

(***************************************************************************)
(* Construction                                                            *)
(***************************************************************************)
OptionsSet ==
    { [fix |-> TRUE, formatter |-> Undefined],
      [fix |-> FALSE, formatter |-> Undefined],
      [fix |-> TRUE, formatter |-> "nope"] }

\* the file sets a tsconfig can name
ProgramFileSets == {{MainFile}}

\* Linter.createProgram: parses the named files as they are on disk now
createProgram(fileNames, fsys) ==
    [defined |-> TRUE, names |-> fileNames,
     text |-> [p \in Files |-> IF p \in fileNames THEN fsys[p] ELSE <<>>]]

Programs(fsys) == {NoProgram} \cup {createProgram(fn, fsys) : fn \in ProgramFileSets}

NoInvocation ==
    [outcome |-> "none", fileName |-> "", text |-> <<>>, configuration |-> <<>>,
     fix |-> FALSE, withProgram |-> FALSE, viewName |-> "", view0 |-> <<>>,
     failures0 |-> <<>>, fixes0 |-> <<>>, disk0 |-> InitialDisk,
     console0 |-> [m \in WarningMessages |-> 0],
     batch0 |-> <<>>, swept |-> FALSE, steps |-> <<>>, finalSource |-> <<>>,
     finalView |-> <<>>, batch |-> <<>>]
NoResult == [threw |-> FALSE, called |-> FALSE]

\* the concurrent invocations, and one of them before it has started: its own
\* Linter (failures, fixes) and the locals of lint(), applyAllFixes() and
\* applyFixes()
Procs == {"p", "q"}

NoWorker ==
    [pc |-> "idle", outcome |-> "none", fileName |-> "", configuration |-> <<>>,
     failures |-> <<>>, fixes |-> <<>>,
     sourceFile |-> NoView, source |-> <<>>, enabledRules |-> <<>>,
     fileFailures |-> <<>>, ruleIdx |-> 0,
     fixesByFile |-> <<>>, entryIdx |-> 0, oldSource |-> <<>>,
     swept |-> <<>>]

\* the locals of lint() when no invocation is running
IdleLocals ==
    /\ pc' = "idle"
    /\ sourceFileName' = ""
    /\ sourceFile' = NoView
    /\ source' = <<>>
    /\ enabledRules' = <<>>
    /\ fileFailures' = <<>>
    /\ ruleIdx' = 0

Init ==
    /\ disk = InitialDisk
    /\ options \in OptionsSet
    /\ program \in Programs(InitialDisk)
    /\ failures = <<>>
    /\ fixes = <<>>
    /\ shownWarnings = {}
    /\ console = [m \in WarningMessages |-> 0]
    /\ pc = "idle"
    /\ sourceFileName = ""
    /\ sourceFile = NoView
    /\ source = <<>>
    /\ enabledRules = <<>>
    /\ fileFailures = <<>>
    /\ ruleIdx = 0
    /\ result = NoResult
    /\ nLints = 0
    /\ reportedBy = <<>>
    /\ inv = NoInvocation
    /\ prev = NoInvocation
    /\ workers = [p \in Procs |-> NoWorker]
    /\ events = <<>>

(***************************************************************************)
(* Linter.lint, lines 92-105: parse, collect the batch, decide             *)
(***************************************************************************)
Warned(rules) ==
    applyRulesWarn(rules, [shown |-> shownWarnings, console |-> console])

\* variant: the fix option is not consulted
shouldFix_always(opts, batch) == Some(batch, hasFix)

\* line 103: fix mode is on and the batch holds a failure with a fix
shouldFix(opts, batch) == opts.fix /\ Some(batch, hasFix)

LintStart(fileName, text, configuration) ==
    /\ pc = "idle"
    /\ nLints < MaxLints
    /\ nLints' = nLints + 1
    /\ prev' = inv
    /\ LET sf == getSourceFile(fileName, text)
           rules == getEnabledRules(configuration)
           started == [NoInvocation EXCEPT
                          !.fileName = fileName, !.text = text,
                          !.configuration = configuration,
                          !.fix = options.fix,
                          !.withProgram = program.defined,
                          !.failures0 = failures, !.fixes0 = fixes,
                          !.disk0 = disk, !.console0 = console]
       IN  IF ~sf.found
           THEN \* FatalError: Invalid source file
                /\ inv' = [started EXCEPT !.outcome = "fatal"]
                /\ IdleLocals
                /\ UNCHANGED <<shownWarnings, console>>
           ELSE LET batch == getAllFailures(sf, rules)
                    w == Warned(rules)
                    seen == [started EXCEPT !.viewName = sf.fileName, !.view0 = sf.text,
                                            !.finalSource = sf.text, !.batch0 = batch]
                IN  /\ shownWarnings' = w.shown
                    /\ console' = w.console
                    /\ IF batch = <<>>
                       THEN \* usual case: no errors
                            /\ inv' = [seen EXCEPT !.outcome = "clean",
                                                   !.finalView = sf.text]
                            /\ IdleLocals
                       ELSE /\ inv' = [seen EXCEPT !.outcome = "running",
                                       !.swept = shouldFix(options, batch)]
                            /\ sourceFileName' = fileName
                            /\ sourceFile' = sf
                            /\ enabledRules' = rules
                            /\ fileFailures' = batch
                            /\ IF shouldFix(options, batch)
                               THEN /\ pc' = "sweep"
                                    /\ source' = sf.text
                                    /\ ruleIdx' = 1
                               ELSE /\ pc' = "stamp"
                                    /\ source' = <<>>
                                    /\ ruleIdx' = 0
    /\ result' = NoResult
    /\ UNCHANGED <<disk, options, program, failures, fixes, reportedBy, workers, events>>

(***************************************************************************)
(* Linter.applyAllFixes, lines 159-169: one iteration of the sweep         *)
(***************************************************************************)
\* variant: any fixable failure of the batch selects every rule
hasFixes_anyRule(rule, batch) == Some(batch, hasFix)

\* line 160
hasFixes(rule, batch) ==
    Some(batch, LAMBDA f : hasFix(f) /\ f.ruleName = rule.ruleName)

\* variant: a fixed-point loop, which starts over after every committed edit
nextRule_restart(i, changed) == IF changed THEN 1 ELSE i + 1

\* line 159: the loop goes on with the next rule, whatever the iteration did
nextRule(i, changed) == i + 1

\* variant: the stale batch is returned instead of a recomputed one
recomputeFailures_stale(sf, rules, staleBatch) == staleBatch

\* line 172: the batch applyAllFixes returns
recomputeFailures(sf, rules, staleBatch) == getAllFailures(sf, rules)

\* variant: the re-executed rule's failures are taken as they come
updatedFailuresOf_unfiltered(rule, sf) == applyRule(rule, sf)

\* line 163: get new failures in case the file changed
updatedFailuresOf(rule, sf) == removeDisabledFailures(sf, applyRule(rule, sf))

\* variant: the fixes of the iteration are not recorded
recordFixes_dropped(accumulated, fixableFailures) == accumulated

\* line 165: this.fixes = this.fixes.concat(fixableFailures)
recordFixes(accumulated, fixableFailures) == accumulated \o fixableFailures

\* an iteration whose rule had no fixable failure in the original batch
SkipRule ==
    /\ pc = "sweep"
    /\ ruleIdx <= Len(enabledRules)
    /\ ~hasFixes(enabledRules[ruleIdx], fileFailures)
    /\ ruleIdx' = nextRule(ruleIdx, FALSE)
    /\ UNCHANGED <<disk, options, program, failures, fixes, shownWarnings, console,
                   pc, sourceFileName, sourceFile, source, enabledRules,
                   fileFailures, result, nLints, reportedBy, inv, prev,
                   workers, events>>

\* an iteration that re-executes the rule and commits its fixes (lines 162-167)
FixRule ==
    /\ pc = "sweep"
    /\ ruleIdx <= Len(enabledRules)
    /\ hasFixes(enabledRules[ruleIdx], fileFailures)
    /\ LET rule == enabledRules[ruleIdx]
           updatedFailures == updatedFailuresOf(rule, sourceFile)
           w == Warned(<<rule>>)
           fixableFailures == Filter(updatedFailures, hasFix)
           st == applyFixes(sourceFileName, source, fixableFailures, disk)
           step == [rule |-> rule.ruleName, viewText |-> sourceFile.text,
                    before |-> source, after |-> st.source,
                    fixable |-> fixableFailures,
                    diskBefore |-> disk, diskAfter |-> st.disk]
       IN  /\ fixes' = recordFixes(fixes, fixableFailures)
           /\ source' = st.source
           /\ disk' = st.disk
           /\ sourceFile' = getSourceFile(sourceFileName, st.source)
           /\ shownWarnings' = w.shown
           /\ console' = w.console
           /\ inv' = [inv EXCEPT !.steps = Append(@, step),
                                 !.finalSource = st.source]
           /\ ruleIdx' = nextRule(ruleIdx, st.source # source)
    /\ UNCHANGED <<options, program, failures, pc, sourceFileName, enabledRules,
                   fileFailures, result, nLints, reportedBy, prev, workers, events>>

\* line 172: after the loop, get the new list of failures
Recompute ==
    /\ pc = "sweep"
    /\ ruleIdx > Len(enabledRules)
    /\ LET w == Warned(enabledRules)
       IN  /\ fileFailures' = recomputeFailures(sourceFile, enabledRules, fileFailures)
           /\ shownWarnings' = w.shown
           /\ console' = w.console
    /\ pc' = "stamp"
    /\ UNCHANGED <<disk, options, program, failures, fixes, sourceFileName,
                   sourceFile, source, enabledRules, ruleIdx, result, nLints,
                   reportedBy, inv, prev, workers, events>>

(***************************************************************************)
(* Linter.lint, lines 107-120: stamp severities, accumulate                *)
(***************************************************************************)
\* variant: the batch takes the place of the accumulated failures
accumulate_replacing(accumulated, batch) == batch

\* line 120: this.failures = this.failures.concat(fileFailures)
accumulate(accumulated, batch) == accumulated \o batch

Stamp ==
    /\ pc = "stamp"
    /\ IF severityNotFound(enabledRules, fileFailures)
       THEN \* Error: Severity for rule ... not found
            /\ inv' = [inv EXCEPT !.outcome = "severity",
                                  !.finalView = sourceFile.text,
                                  !.batch = fileFailures]
            /\ UNCHANGED <<failures, reportedBy>>
       ELSE LET stamped == stampSeverity(enabledRules, fileFailures)
            IN  /\ failures' = accumulate(failures, stamped)
                /\ reportedBy' = reportedBy \o [i \in 1..Len(stamped) |-> enabledRules]
                /\ inv' = [inv EXCEPT !.outcome = "done",
                                      !.finalView = sourceFile.text,
                                      !.batch = stamped]
    /\ IdleLocals
    /\ UNCHANGED <<disk, options, program, fixes, shownWarnings, console, result,
                   nLints, prev, workers, events>>

(***************************************************************************)
(* Linter.getResult                                                        *)
(***************************************************************************)
KnownFormatters == {"prose", "json"}

getResult ==
    LET formatterName == IF options.formatter # Undefined THEN options.formatter ELSE "prose"
        errorCount == Len(Filter(failures, LAMBDA f : f.ruleSeverity = "error"))
    IN  IF formatterName \notin KnownFormatters
        THEN [threw |-> TRUE, called |-> TRUE]
        ELSE [threw |-> FALSE, called |-> TRUE,
              errorCount |-> errorCount,
              failures |-> failures,
              fixes |-> fixes,
              format |-> formatterName,
              warningCount |-> Len(failures) - errorCount]

GetResult ==
    /\ pc = "idle"
    /\ result' = getResult
    /\ UNCHANGED <<disk, options, program, failures, fixes, shownWarnings, console,
                   pc, sourceFileName, sourceFile, source, enabledRules,
                   fileFailures, ruleIdx, nLints, reportedBy, inv, prev,
                   workers, events>>

Next ==
    \/ \E fileName \in Files, configuration \in Configurations :
          \E text \in Sources \cup {disk[fileName]} :
              LintStart(fileName, text, configuration)
    \/ SkipRule
    \/ FixRule
    \/ Recompute
    \/ Stamp
    \/ GetResult

Spec == Init /\ [][Next]_vars

(***************************************************************************)
(* Concurrent invocations.  Two Linters, built from the same options and   *)
(* program, run lint() at the same time over one file system.  Each step   *)
(* of a worker is a stretch of lint() that holds at most one file          *)
(* operation: the read of line 185 and the write of line 188 are steps of  *)
(* their own, and either may fail.  The configurations used here hold no   *)
(* raising rule, so nothing is warned.                                     *)
(***************************************************************************)
linterVars == <<options, program, failures, fixes, shownWarnings, console, pc,
                sourceFileName, sourceFile, source, enabledRules, fileFailures,
                ruleIdx, result, nLints, reportedBy, inv, prev>>

InterleavedConfigurations ==
    { <<Rule("X", "error"), Rule("B", "warning")>>,
      <<Rule("N", "warning"), Rule("Z", "error")>> }

InterleavedSources == { <<"x", "b">> }

Event(p, op, filePath, text, fileFixes, ok) ==
    [proc |-> p, op |-> op, file |-> PathResolve(filePath), text |-> text,
     fixes |-> fileFixes, ok |-> ok]

\* lint() has returned or thrown: its locals are gone, its Linter stays
Finished(w, outcome, accumulated) ==
    [NoWorker EXCEPT !.pc = "done", !.outcome = outcome,
                     !.fileName = w.fileName, !.configuration = w.configuration,
                     !.failures = accumulated, !.fixes = w.fixes,
                     !.swept = w.swept]

\* lines 92-105, with the post-suppression batch of line 97
WLint(p, fileName, text, configuration) ==
    /\ workers[p].pc = "idle"
    /\ LET sf == getSourceFile(fileName, text)
           rules == getEnabledRules(configuration)
           w == [workers[p] EXCEPT !.fileName = fileName,
                                   !.configuration = configuration]
       IN  IF ~sf.found
           THEN workers' = [workers EXCEPT ![p] = Finished(w, "fatal", w.failures)]
           ELSE LET batch == getAllFailures(sf, rules)
                IN  IF batch = <<>>
                    THEN workers' = [workers EXCEPT
                                        ![p] = Finished(w, "clean", w.failures)]
                    ELSE workers' = [workers EXCEPT ![p] =
                             [w EXCEPT !.sourceFile = sf,
                                       !.enabledRules = rules,
                                       !.fileFailures = batch,
                                       !.pc = IF shouldFix(options, batch)
                                              THEN "sweep" ELSE "stamp",
                                       !.source = IF shouldFix(options, batch)
                                                  THEN sf.text ELSE <<>>,
                                       !.ruleIdx = IF shouldFix(options, batch)
                                                   THEN 1 ELSE 0]]
    /\ UNCHANGED <<disk, events>>
    /\ UNCHANGED linterVars

\* lines 159-161: a rule without a fixable failure in the original batch
WSkip(p) ==
    LET w == workers[p]
    IN  /\ w.pc = "sweep"
        /\ w.ruleIdx <= Len(w.enabledRules)
        /\ ~hasFixes(w.enabledRules[w.ruleIdx], w.fileFailures)
        /\ workers' = [workers EXCEPT ![p].ruleIdx = nextRule(w.ruleIdx, FALSE)]
        /\ UNCHANGED <<disk, events>>
        /\ UNCHANGED linterVars

\* lines 163-165 and 178: re-execute the rule, record its fixes, group them
WFix(p) ==
    LET w == workers[p]
    IN  /\ w.pc = "sweep"
        /\ w.ruleIdx <= Len(w.enabledRules)
        /\ hasFixes(w.enabledRules[w.ruleIdx], w.fileFailures)
        /\ LET rule == w.enabledRules[w.ruleIdx]
               fixableFailures == Filter(updatedFailuresOf(rule, w.sourceFile), hasFix)
           IN  workers' = [workers EXCEPT ![p] =
                   [w EXCEPT !.fixes = recordFixes(w.fixes, fixableFailures),
                             !.fixesByFile = createMultiMap(fixableFailures),
                             !.entryIdx = 1,
                             !.pc = "entry",
                             !.swept = Append(@, [rule |-> rule.ruleName,
                                                  fixable |-> fixableFailures])]]
        /\ UNCHANGED <<disk, events>>
        /\ UNCHANGED linterVars

\* the entry of fixesByFile the forEach of applyFixes is at
AtEntry(w) == w.pc = "entry" /\ w.entryIdx <= Len(w.fixesByFile)

Entry(w) == w.fixesByFile[w.entryIdx]

\* lines 181-183 and 188: the entry of the linted file, merged and written
WOwn(p) ==
    LET w == workers[p]
    IN  /\ AtEntry(w)
        /\ isLintedFile(Entry(w).filePath, w.fileName)
        /\ LET fileNewSource == ReplacementApplyFixes(w.source, Entry(w).fileFixes)
           IN  /\ disk' = writeFileSync(disk, Entry(w).filePath, fileNewSource)
               /\ events' = Append(events, Event(p, "write", Entry(w).filePath,
                                                 fileNewSource, Entry(w).fileFixes, TRUE))
               /\ workers' = [workers EXCEPT ![p] =
                       [w EXCEPT !.source = fileNewSource, !.entryIdx = @ + 1]]
        /\ UNCHANGED linterVars

\* line 185: the entry of another file, its text read from disk
WRead(p) ==
    LET w == workers[p]
    IN  /\ AtEntry(w)
        /\ ~isLintedFile(Entry(w).filePath, w.fileName)
        /\ LET oldSource == readFileSync(disk, Entry(w).filePath)
           IN  /\ events' = Append(events, Event(p, "read", Entry(w).filePath,
                                                 oldSource, <<>>, TRUE))
               /\ workers' = [workers EXCEPT ![p] =
                       [w EXCEPT !.oldSource = oldSource, !.pc = "write"]]
        /\ UNCHANGED disk
        /\ UNCHANGED linterVars

\* variant: the fixes are merged into the text the file holds when it is written
mergeRead_fresh(oldSource, onDisk, fileFixes) ==
    ReplacementApplyFixes(onDisk, fileFixes)

\* line 186: the fixes are merged into the text read at line 185
mergeRead(oldSource, onDisk, fileFixes) ==
    ReplacementApplyFixes(oldSource, fileFixes)

\* lines 186-188: the text read is merged with the fixes and written back
WWrite(p) ==
    LET w == workers[p]
    IN  /\ w.pc = "write"
        /\ LET fileNewSource ==
                   mergeRead(w.oldSource, readFileSync(disk, Entry(w).filePath),
                             Entry(w).fileFixes)
           IN  /\ disk' = writeFileSync(disk, Entry(w).filePath, fileNewSource)
               /\ events' = Append(events, Event(p, "write", Entry(w).filePath,
                                                 fileNewSource, Entry(w).fileFixes, TRUE))
               /\ workers' = [workers EXCEPT ![p] =
                       [w EXCEPT !.oldSource = <<>>, !.entryIdx = @ + 1,
                                 !.pc = "entry"]]
        /\ UNCHANGED linterVars

\* line 185 throws: nothing catches it before the caller of lint()
WReadFails(p) ==
    LET w == workers[p]
    IN  /\ AtEntry(w)
        /\ ~isLintedFile(Entry(w).filePath, w.fileName)
        /\ events' = Append(events, Event(p, "read", Entry(w).filePath, <<>>, <<>>, FALSE))
        /\ workers' = [workers EXCEPT ![p] = Finished(w, "io", w.failures)]
        /\ UNCHANGED disk
        /\ UNCHANGED linterVars

\* line 188 throws, for the linted file or another: the file keeps its text
WWriteFails(p) ==
    LET w == workers[p]
    IN  /\ \/ w.pc = "write"
           \/ AtEntry(w) /\ isLintedFile(Entry(w).filePath, w.fileName)
        /\ events' = Append(events, Event(p, "write", Entry(w).filePath, <<>>,
                                          Entry(w).fileFixes, FALSE))
        /\ workers' = [workers EXCEPT ![p] = Finished(w, "io", w.failures)]
        /\ UNCHANGED disk
        /\ UNCHANGED linterVars

\* lines 166-167: applyFixes returns, the view is derived anew, next rule
WNextRule(p) ==
    LET w == workers[p]
    IN  /\ w.pc = "entry"
        /\ w.entryIdx > Len(w.fixesByFile)
        /\ workers' = [workers EXCEPT ![p] =
               [w EXCEPT !.sourceFile = getSourceFile(w.fileName, w.source),
                         !.fixesByFile = <<>>, !.entryIdx = 0,
                         !.ruleIdx = nextRule(w.ruleIdx, TRUE),
                         !.pc = "sweep"]]
        /\ UNCHANGED <<disk, events>>
        /\ UNCHANGED linterVars

\* line 172: after the loop, the new list of failures
WRecompute(p) ==
    LET w == workers[p]
    IN  /\ w.pc = "sweep"
        /\ w.ruleIdx > Len(w.enabledRules)
        /\ workers' = [workers EXCEPT ![p] =
               [w EXCEPT !.fileFailures =
                             recomputeFailures(w.sourceFile, w.enabledRules, w.fileFailures),
                         !.pc = "stamp"]]
        /\ UNCHANGED <<disk, events>>
        /\ UNCHANGED linterVars

\* lines 107-120: stamp severities, accumulate
WStamp(p) ==
    LET w == workers[p]
    IN  /\ w.pc = "stamp"
        /\ workers' = [workers EXCEPT ![p] =
               IF severityNotFound(w.enabledRules, w.fileFailures)
               THEN Finished(w, "severity", w.failures)
               ELSE Finished(w, "done",
                        accumulate(w.failures,
                                   stampSeverity(w.enabledRules, w.fileFailures)))]
        /\ UNCHANGED <<disk, events>>
        /\ UNCHANGED linterVars

NextInterleaved ==
    \/ \E p \in Procs, fileName \in Files, configuration \in InterleavedConfigurations :
          \E text \in InterleavedSources \cup {disk[fileName]} :
              WLint(p, fileName, text, configuration)
    \/ \E p \in Procs : WSkip(p)
    \/ \E p \in Procs : WFix(p)
    \/ \E p \in Procs : WOwn(p)
    \/ \E p \in Procs : WRead(p)
    \/ \E p \in Procs : WWrite(p)
    \/ \E p \in Procs : WReadFails(p)
    \/ \E p \in Procs : WWriteFails(p)
    \/ \E p \in Procs : WNextRule(p)
    \/ \E p \in Procs : WRecompute(p)
    \/ \E p \in Procs : WStamp(p)

SpecInterleaved == Init /\ [][NextInterleaved]_vars

(***************************************************************************)
(* Vocabulary of the properties                                            *)
(***************************************************************************)
RuleNames(configuration) == {configuration[i].ruleName : i \in 1..Len(configuration)}

\* the invocation the history records has returned or thrown
Completed(i) == i.outcome \in {"clean", "done", "severity"}

\* the invocation ran applyAllFixes
FixPass(i) == i.swept

\* the position of a rule in a configuration (0 when it is not there)
RuleIndex(configuration, name) ==
    IF name \in RuleNames(configuration)
    THEN CHOOSE k \in 1..Len(configuration) : configuration[k].ruleName = name
    ELSE 0

\* the failures of one rule on a text: executed, then suppression-filtered
RuleFailuresOn(rule, fileName, text) ==
    removeDisabledFailures(SourceView(fileName, text),
                           applyRule(rule, SourceView(fileName, text)))

\* the stamped batch of all the rules on a text
BatchOn(configuration, fileName, text) ==
    stampSeverity(configuration,
        removeDisabledFailures(SourceView(fileName, text),
            flatMap(configuration, LAMBDA rule : applyRule(rule, SourceView(fileName, text)))))

(***************************************************************************)
(* C1: every rule of the fix sweep is re-executed against a SourceView     *)
(* whose text is the current working text of the linted file, with or      *)
(* without a semantic program, so that no replacement computed against a   *)
(* superseded text is merged into the working text.                        *)
(***************************************************************************)
C1_SweepViewIsCurrent ==
    \A k \in 1..Len(inv.steps) : inv.steps[k].viewText = inv.steps[k].before

(***************************************************************************)
(* C2: after a fix pass the failures appended to the session are exactly   *)
(* the suppression-filtered failures of all enabled rules, in configured   *)
(* order, on the SourceView of the final mutated text.                     *)
(***************************************************************************)
C2_ReportedBatchIsOfFinalText ==
    (inv.outcome = "done" /\ FixPass(inv)) =>
        /\ inv.batch = BatchOn(inv.configuration, inv.viewName, inv.finalSource)
        /\ failures = inv.failures0 \o inv.batch

(***************************************************************************)
(* The two-rule scenario of C3 and C4: step k of invocation i is the fix   *)
(* step of a rule B, rule `name` (A) precedes B in the configuration, and  *)
(* B's committed edit turns a text in which A has no fixable failure into  *)
(* one in which it has.                                                    *)
(***************************************************************************)
FixableOn(name, i, text) ==
    Filter(RuleFailuresOn(Rule(name, Unset), i.viewName, text), hasFix)

Creates(i, k, name) ==
    /\ k \in 1..Len(i.steps)
    /\ RuleIndex(i.configuration, name) > 0
    /\ RuleIndex(i.configuration, name) < RuleIndex(i.configuration, i.steps[k].rule)
    /\ i.steps[k].after # i.steps[k].before
    /\ FixableOn(name, i, i.steps[k].before) = <<>>
    /\ FixableOn(name, i, i.steps[k].after) # <<>>

\* ... and the violation B created is still in the text the invocation leaves
CreatesAndLeaves(i, k, name) ==
    /\ Creates(i, k, name)
    /\ FixableOn(name, i, i.finalSource) # <<>>

\* invocation j lints, with the same rules, the text invocation i left
SecondInvocationOf(j, i) ==
    /\ Completed(i) /\ Completed(j)
    /\ j.fileName = i.fileName
    /\ j.configuration = i.configuration
    /\ j.view0 = i.finalSource

AllRuleNames == {"A", "B", "X", "Z", "D", "N", "Y", "T", "S", "M"}

(***************************************************************************)
(* C3: the fix sweep is one left-to-right pass: each enabled rule is       *)
(* re-executed for fixing at most once, in configured order; when B's      *)
(* committed fix creates a fixable failure of an earlier rule A, A's new   *)
(* fix is not committed in that invocation, and a second invocation on     *)
(* the resulting text does commit it.                                      *)
(***************************************************************************)
C3_SingleSweep ==
    /\ \A k, m \in 1..Len(inv.steps) :
          k < m => RuleIndex(inv.configuration, inv.steps[k].rule)
                     < RuleIndex(inv.configuration, inv.steps[m].rule)
    /\ \A name \in AllRuleNames : \A k \in 1..Len(inv.steps) :
          Creates(inv, k, name) =>
              \A m \in 1..Len(inv.steps) : m > k => inv.steps[m].rule # name
    /\ \A name \in AllRuleNames :
          ( /\ SecondInvocationOf(inv, prev)
            /\ inv.fix
            /\ \E k \in 1..Len(prev.steps) : CreatesAndLeaves(prev, k, name) )
          => \E m \in 1..Len(inv.steps) :
                /\ inv.steps[m].rule = name
                /\ inv.steps[m].fixable # <<>>
                /\ inv.steps[m].after # inv.steps[m].before

\* a second invocation has committed the fix the first one left behind
C3_Witness ==
    /\ SecondInvocationOf(inv, prev)
    /\ inv.fix
    /\ \E k \in 1..Len(prev.steps) : CreatesAndLeaves(prev, k, "A")
    /\ \E m \in 1..Len(inv.steps) : inv.steps[m].rule = "A" /\ inv.steps[m].fixable # <<>>

(***************************************************************************)
(* C4 as stated: when B's committed fix creates a violation of an earlier  *)
(* rule A, A's violation is absent from the failures reported for that     *)
(* invocation and present in the result after a second invocation.         *)
(***************************************************************************)
C4_AbsentThenPresent ==
    \A name \in AllRuleNames :
        /\ ( /\ inv.outcome = "done"
             /\ \E k \in 1..Len(inv.steps) : CreatesAndLeaves(inv, k, name) )
           => ~ \E n \in 1..Len(inv.batch) : inv.batch[n].ruleName = name
        /\ ( /\ SecondInvocationOf(inv, prev)
             /\ \E k \in 1..Len(prev.steps) : CreatesAndLeaves(prev, k, name) )
           => \E n \in 1..Len(failures) : failures[n].ruleName = name

(***************************************************************************)
(* C4 amended: when B's committed fix creates a violation of an earlier    *)
(* rule A, the post-fix recomputation reports it: whenever the final       *)
(* SourceView is of the fixed text, A's violations in that text are among  *)
(* the failures reported for that invocation, and they are still in the    *)
(* accumulated result after a second invocation.                           *)
(***************************************************************************)
ReportsAll(batch, expected) ==
    \A n \in 1..Len(expected) :
        \E m \in 1..Len(batch) :
            /\ batch[m].ruleName = expected[n].ruleName
            /\ batch[m].start = expected[n].start
            /\ batch[m].fix = expected[n].fix

C4_PresentAfterRecompute ==
    \A name \in AllRuleNames :
        /\ ( /\ inv.outcome = "done"
             /\ inv.finalView = inv.finalSource
             /\ \E k \in 1..Len(inv.steps) : CreatesAndLeaves(inv, k, name) )
           => /\ \E n \in 1..Len(inv.batch) : inv.batch[n].ruleName = name
              /\ ReportsAll(inv.batch, FixableOn(name, inv, inv.finalSource))
        /\ ( /\ SecondInvocationOf(inv, prev)
             /\ prev.outcome = "done"
             /\ prev.finalView = prev.finalSource
             /\ \E k \in 1..Len(prev.steps) : CreatesAndLeaves(prev, k, name) )
           => ReportsAll(failures, FixableOn(name, prev, prev.finalSource))

\* the created violation has been reported, and a second invocation has run
C4_Witness ==
    /\ SecondInvocationOf(inv, prev)
    /\ prev.outcome = "done"
    /\ prev.finalView = prev.finalSource
    /\ \E k \in 1..Len(prev.steps) : CreatesAndLeaves(prev, k, "A")
    /\ \E n \in 1..Len(prev.batch) : prev.batch[n].ruleName = "A"
    /\ inv.fix
    /\ ~ \E n \in 1..Len(inv.batch) : inv.batch[n].ruleName = "A"

(***************************************************************************)
(* C5: when a rule of the fix sweep produces a fix for a file other than   *)
(* the linted one, the other file on disk becomes its previous text with   *)
(* that replacement merged in, the fix is in the accumulated fixes, and    *)
(* the linted file's working text and disk content get none of it.         *)
(***************************************************************************)
IsCrossFile(i, f) == PathResolve(f.fileName) # PathResolve(i.fileName)

FixesOf(fs) == [n \in 1..Len(fs) |-> fs[n].fix]

CrossFileStepOk(i, st) ==
    LET cross == Filter(st.fixable, LAMBDA f : IsCrossFile(i, f))
        own == Filter(st.fixable, LAMBDA f : ~IsCrossFile(i, f))
        linted == PathResolve(i.fileName)
    IN  cross # <<>> =>
          /\ \A p \in Files \ {linted} :
                st.diskAfter[p] =
                    ReplacementApplyFixes(st.diskBefore[p],
                        FixesOf(Filter(cross, LAMBDA f : PathResolve(f.fileName) = p)))
          /\ \A n \in 1..Len(cross) : \E m \in 1..Len(fixes) : fixes[m] = cross[n]
          /\ st.after = ReplacementApplyFixes(st.before, FixesOf(own))
          /\ st.diskAfter[linted] =
                IF own = <<>> THEN st.diskBefore[linted] ELSE st.after

OriginalBatchEmpty(i) ==
    LET view == SourceView(i.viewName, i.view0)
    IN  removeDisabledFailures(view,
            flatMap(i.configuration, LAMBDA rule : applyRule(rule, view))) = <<>>

C6_EmptyBatchIsNoOp ==
    (inv.outcome \notin {"none", "fatal"} /\ OriginalBatchEmpty(inv)) =>
        /\ inv.outcome = "clean"
        /\ disk = inv.disk0
        /\ failures = inv.failures0
        /\ fixes = inv.fixes0

\* a fix-mode invocation whose rules reported only suppressed failures, after
\* an invocation that had accumulated failures and written a file
C6_Witness ==
    /\ inv.outcome = "clean"
    /\ inv.fix
    /\ inv.configuration # <<>>
    /\ \E n \in 1..Len(inv.configuration) :
          applyRule(inv.configuration[n], SourceView(inv.viewName, inv.view0)) # <<>>
    /\ failures # <<>>
    /\ disk # InitialDisk

(***************************************************************************)
(* C7: every accumulated failure carries the severity configured for its   *)
(* rule in the invocation that reported it; getResult returns errorCount   *)
(* = number of accumulated failures of severity error and warningCount =   *)
(* number of all the others, so the two add up to all of them.             *)
(***************************************************************************)
ConfiguredSeverity(configuration, name, severity) ==
    \E n \in 1..Len(configuration) :
        configuration[n].ruleName = name /\ configuration[n].ruleSeverity = severity

C7_SeverityAndCounts ==
    /\ Len(reportedBy) = Len(failures)
    /\ \A n \in 1..Len(failures) :
          /\ failures[n].ruleSeverity \in {"error", "warning"}
          /\ ConfiguredSeverity(reportedBy[n], failures[n].ruleName, failures[n].ruleSeverity)
    /\ (result.called /\ ~result.threw) =>
          /\ result.errorCount =
                Cardinality({n \in 1..Len(failures) : failures[n].ruleSeverity = "error"})
          /\ result.warningCount =
                Cardinality({n \in 1..Len(failures) : failures[n].ruleSeverity # "error"})
          /\ result.errorCount + result.warningCount = Len(failures)

\* a summary over two invocations that configured rule A's severity differently
C7_Witness ==
    /\ result.called /\ ~result.threw
    /\ result.errorCount >= 1
    /\ result.warningCount >= 1
    /\ \E n, m \in 1..Len(failures) :
          /\ failures[n].ruleName = failures[m].ruleName
          /\ failures[n].ruleSeverity = "error"
          /\ failures[m].ruleSeverity = "warning"

(***************************************************************************)
(* C8: a rule that raises on every execution contributes no failure and    *)
(* no fix and never aborts lint: the original batch, the rules of the fix  *)
(* sweep and the reported batch are those of the other enabled rules       *)
(* alone, on every one of repeated invocations.                            *)
(***************************************************************************)
WithoutThrowing(configuration) ==
    Filter(configuration, LAMBDA rule : rule.ruleName \notin ThrowingRules)

FilteredBatch(configuration, fileName, text) ==
    removeDisabledFailures(SourceView(fileName, text),
        flatMap(configuration, LAMBDA rule : RuleBody(rule, SourceView(fileName, text),
                                                      program.defined /\ isTypedRule(rule))))

IsolatesThrowing(i) ==
    (i.outcome \notin {"none", "fatal"}) =>
        /\ i.batch0 = FilteredBatch(WithoutThrowing(i.configuration), i.viewName, i.view0)
        /\ \A k \in 1..Len(i.steps) :
              /\ i.steps[k].rule \notin ThrowingRules
              /\ \A n \in 1..Len(i.steps[k].fixable) :
                    i.steps[k].fixable[n].ruleName \notin ThrowingRules
        /\ (i.outcome = "done") =>
              i.batch = stampSeverity(i.configuration,
                            FilteredBatch(WithoutThrowing(i.configuration),
                                          i.viewName, i.finalView))
        /\ (i.outcome = "clean") => i.batch0 = <<>>

C8_CrashIsolation ==
    /\ IsolatesThrowing(inv)
    /\ IsolatesThrowing(prev)
    /\ \A n \in 1..Len(failures) : failures[n].ruleName \notin ThrowingRules
    /\ \A n \in 1..Len(fixes) : fixes[n].ruleName \notin ThrowingRules
    /\ \A n \in 1..Len(fileFailures) : fileFailures[n].ruleName \notin ThrowingRules

HasThrowing(i) == \E n \in 1..Len(i.configuration) : i.configuration[n].ruleName \in ThrowingRules

\* two invocations with a raising rule enabled; the other rules' failures were
\* fixed and reported both times
C8_Witness ==
    /\ HasThrowing(inv) /\ HasThrowing(prev)
    /\ inv.outcome = "done" /\ prev.outcome = "done"
    /\ inv.steps # <<>> /\ prev.steps # <<>>
    /\ inv.batch # <<>> /\ prev.batch # <<>>

(***************************************************************************)
(* C9: whatever value a rule raises, a warning with a given message is     *)
(* printed at most once, over all rule executions, files and invocations.  *)
(***************************************************************************)
C9_WarnedOnce ==
    \A m \in WarningMessages : console[m] <= 1

(***************************************************************************)
(* C10: if a failure of the final batch has a rule name that no enabled    *)
(* rule has, lint raises instead of assigning a default severity, and the  *)
(* accumulated failures are those of before the invocation.                *)
(***************************************************************************)
HasForeignFailure(i) ==
    \E n \in 1..Len(i.batch) : i.batch[n].ruleName \notin RuleNames(i.configuration)

C10_UnknownRuleNameIsFatal ==
    /\ (inv.outcome \in {"done", "severity"} /\ HasForeignFailure(inv)) =>
          /\ inv.outcome = "severity"
          /\ failures = inv.failures0
    /\ \A n \in 1..Len(failures) :
          failures[n].ruleName \in RuleNames(reportedBy[n])

\* lint has raised on a foreign rule name after an earlier invocation had
\* accumulated failures
C10_Witness ==
    /\ inv.outcome = "severity"
    /\ HasForeignFailure(inv)
    /\ \E n \in 1..Len(inv.batch) : inv.batch[n].ruleName \in RuleNames(inv.configuration)
    /\ inv.failures0 # <<>>
    /\ failures = inv.failures0

(***************************************************************************)
(* C12: the fix sweep re-executes, and commits fixes for, only the rules   *)
(* that had a fixable failure in the original post-suppression batch; a    *)
(* rule without one is never re-executed and adds nothing to the           *)
(* accumulated fixes or to any write, even when an earlier rule's edit     *)
(* makes it produce a fixable failure on the current text.                 *)
(***************************************************************************)
FixableInOriginalBatch(i, name) ==
    \E n \in 1..Len(i.batch0) : hasFix(i.batch0[n]) /\ i.batch0[n].ruleName = name

RECURSIVE StepFixes(_, _)
\* the fixable failures of steps 1..k, in order
StepFixes(steps, k) ==
    IF k = 0 THEN <<>> ELSE StepFixes(steps, k - 1) \o steps[k].fixable

C12_OnlyOriginallyFixableRules ==
    /\ \A k \in 1..Len(inv.steps) :
          /\ FixableInOriginalBatch(inv, inv.steps[k].rule)
          /\ \A n \in 1..Len(inv.steps[k].fixable) :
                inv.steps[k].fixable[n].ruleName = inv.steps[k].rule
    /\ (inv.outcome # "none") => fixes = inv.fixes0 \o StepFixes(inv.steps, Len(inv.steps))
    /\ (inv.outcome # "none" /\ inv.steps = <<>>) => disk = inv.disk0

\* an earlier rule's edit gave a later rule, which had nothing to fix in the
\* original batch, a fixable failure; the sweep passed that rule by
C12_Witness ==
    /\ Completed(inv)
    /\ \E name \in RuleNames(inv.configuration) :
          /\ ~FixableInOriginalBatch(inv, name)
          /\ \E k \in 1..Len(inv.steps) :
                /\ RuleIndex(inv.configuration, inv.steps[k].rule)
                      < RuleIndex(inv.configuration, name)
                /\ FixableOn(name, inv, inv.steps[k].before) = <<>>
                /\ FixableOn(name, inv, inv.steps[k].after) # <<>>
          /\ \A k \in 1..Len(inv.steps) : inv.steps[k].rule # name
          /\ FixableOn(name, inv, inv.finalSource) # <<>>

(***************************************************************************)
(* C13 (as stated): every Replacement of a committed Fix is merged only    *)
(* into the text of the file that Replacement itself names; a Fix whose    *)
(* Replacements name two files updates both, each with its own             *)
(* Replacements.                                                           *)
(***************************************************************************)
\* the text of file p a step starts from and ends with: the working text for
\* the linted file, the on-disk text for any other file
TextBefore(i, st, p) ==
    IF p = PathResolve(i.fileName) THEN st.before ELSE st.diskBefore[p]

TextAfter(i, st, p) ==
    IF p = PathResolve(i.fileName) THEN st.after ELSE st.diskAfter[p]

\* the fixes of a step cut down to the Replacements that name file p
ReplacementsFor(fs, p) ==
    LET cut == [n \in 1..Len(fs) |->
                   Filter(fs[n].fix, LAMBDA r : PathResolve(r.file) = p)]
    IN  Filter(cut, LAMBDA fix : fix # <<>>)

FixesFor(fs, p) ==
    FixesOf(Filter(fs, LAMBDA f : PathResolve(f.fileName) = p))

NamesTwoFiles(fix) ==
    \E m, n \in 1..Len(fix) : PathResolve(fix[m].file) # PathResolve(fix[n].file)

StepView(i, st) == SourceView(i.viewName, st.viewText)

StepRule(i, st) == i.configuration[RuleIndex(i.configuration, st.rule)]

NoneDisabled(sf, fs) == \A n \in 1..Len(fs) : ~IsDisabled(sf, fs[n])

C14_SuppressedNeverFixed ==
    /\ \A k \in 1..Len(inv.steps) :
          LET st == inv.steps[k]
              sf == StepView(inv, st)
          IN  /\ NoneDisabled(sf, st.fixable)
              /\ st.fixable =
                     Filter(removeDisabledFailures(sf, applyRule(StepRule(inv, st), sf)),
                            hasFix)
    /\ (inv.outcome # "none") =>
          /\ NoneDisabled(SourceView(inv.viewName, inv.view0), inv.batch0)
          /\ Len(fixes) = Len(inv.fixes0) + Len(StepFixes(inv.steps, Len(inv.steps)))
    /\ (inv.outcome \in {"done", "severity"}) =>
          NoneDisabled(SourceView(inv.viewName, inv.finalView), inv.batch)

\* a re-executed rule produced a fixable failure under a disable directive
\* next to one that is not: only the latter was committed, and the former is
\* in neither the accumulated fixes nor the reported batch
C14_Witness ==
    /\ inv.outcome = "done"
    /\ inv.swept
    /\ \E k \in 1..Len(inv.steps) :
          LET st == inv.steps[k]
              sf == StepView(inv, st)
              raw == applyRule(StepRule(inv, st), sf)
          IN  /\ st.fixable # <<>>
              /\ \E n \in 1..Len(raw) : hasFix(raw[n]) /\ IsDisabled(sf, raw[n])
              /\ st.after # st.before
    /\ LET sf == SourceView(inv.viewName, inv.finalView)
           rawBatch == flatMap(inv.configuration, LAMBDA r : applyRule(r, sf))
       IN  Len(inv.batch) < Len(rawBatch)

(***************************************************************************)
(* C16: on a Linter constructed with a program, lint() on a file the       *)
(* program does not contain fails with a fatal error before any rule is    *)
(* executed: no rule runs (nothing is warned, no batch, no sweep), no      *)
(* file is written, and the accumulated failures and fixes are unchanged.  *)
(***************************************************************************)
NotInProgram(i) ==
    /\ i.outcome # "none"
    /\ i.withProgram
    /\ PathResolve(i.fileName) \notin program.names

C16_FileNotInProgramIsFatal ==
    NotInProgram(inv) =>
        /\ inv.outcome = "fatal"
        /\ pc = "idle"
        /\ inv.batch0 = <<>> /\ inv.steps = <<>> /\ inv.batch = <<>>
        /\ console = inv.console0
        /\ disk = inv.disk0
        /\ failures = inv.failures0
        /\ fixes = inv.fixes0

\* the rejected invocation had rules that raise and rules that would have
\* reported and fixed failures of the text passed in, on a Linter that had
\* already accumulated failures and fixes
C16_Witness ==
    /\ NotInProgram(inv)
    /\ inv.outcome = "fatal"
    /\ HasThrowing(inv)
    /\ \E r \in Range(inv.configuration) :
          Filter(RuleFailuresOn(r, inv.fileName, inv.text), hasFix) # <<>>
    /\ inv.fix
    /\ failures # <<>>
    /\ fixes # <<>>

(***************************************************************************)
(* C17: a lint invocation writes a file or appends to the accumulated      *)
(* fixes only if fix mode is on and its original post-suppression batch    *)
(* holds a failure with a fix; with fix mode off no file is written and    *)
(* the accumulated fixes stay as they are, whatever the invocations.       *)
(***************************************************************************)
C17_WritesOnlyInFixMode ==
    /\ (inv.outcome # "none"
          /\ (disk # inv.disk0 \/ fixes # inv.fixes0 \/ inv.steps # <<>>))
       => (inv.fix /\ Some(inv.batch0, hasFix))
    /\ ~options.fix => (disk = InitialDisk /\ fixes = <<>> /\ inv.steps = <<>>)

\* two invocations without fix mode, both with fixable failures in their
\* batch and both completed: the failures are reported, nothing else changed
C17_Witness ==
    /\ ~options.fix
    /\ prev.outcome = "done" /\ Some(prev.batch0, hasFix)
    /\ inv.outcome = "done" /\ Some(inv.batch0, hasFix)
    /\ inv.fileName # prev.fileName
    /\ failures # <<>>
    /\ disk = InitialDisk /\ fixes = <<>>

(***************************************************************************)
(* C18: the accumulated failures are the concatenation, in invocation      *)
(* order, of the final severity-stamped batch of every completed           *)
(* invocation: nothing is removed or reordered, an invocation that aborts  *)
(* appends nothing, and getResult leaves failures and fixes as they are,   *)
(* so that a second getResult call returns what the first returned.        *)
(***************************************************************************)
\* what an invocation contributed to the accumulated failures
Appended(i) == IF i.outcome = "done" THEN i.batch ELSE <<>>

C18_FailuresAccumulate ==
    /\ (inv.outcome # "none") => failures = inv.failures0 \o Appended(inv)
    /\ (prev.outcome # "none") => inv.failures0 = prev.failures0 \o Appended(prev)
    /\ (inv.outcome = "done") =>
          inv.batch = stampSeverity(inv.configuration,
                          [n \in 1..Len(inv.batch) |->
                              [inv.batch[n] EXCEPT !.ruleSeverity = Unset]])
    /\ result.called =>
          /\ pc = "idle"
          /\ result = getResult
          /\ ~result.threw => (result.failures = failures /\ result.fixes = fixes)

\* two completed invocations with different non-empty batches, then getResult
C18_Witness ==
    /\ prev.outcome = "done" /\ prev.batch # <<>>
    /\ inv.outcome = "done" /\ inv.batch # <<>>
    /\ inv.batch # prev.batch
    /\ failures = prev.batch \o inv.batch
    /\ result.called /\ ~result.threw
    /\ result.failures = prev.batch \o inv.batch

\* an invocation aborted by the severity lookup after one that completed
C18_AbortWitness ==
    /\ prev.outcome = "done" /\ prev.batch # <<>>
    /\ inv.outcome = "severity" /\ inv.batch # <<>>
    /\ failures = prev.batch

(***************************************************************************)
(* C19: every sweep step that commits fixes to the linted file writes the  *)
(* whole working text to that file before the next rule is considered: as  *)
(* long as nothing else writes the file, after every such step, and at     *)
(* the end of a fix-mode invocation that committed a fix to the linted     *)
(* file, the file's on-disk text is the in-memory working text.            *)
(***************************************************************************)
CommitsToLinted(i, st) == FixesFor(st.fixable, PathResolve(i.fileName)) # <<>>

C19_DiskIsWorkingText ==
    /\ \A k \in 1..Len(inv.steps) :
          CommitsToLinted(inv, inv.steps[k]) =>
              inv.steps[k].diskAfter[PathResolve(inv.fileName)] = inv.steps[k].after
    /\ (\E k \in 1..Len(inv.steps) : CommitsToLinted(inv, inv.steps[k])) =>
          /\ pc = "sweep" => disk[PathResolve(sourceFileName)] = source
          /\ (inv.outcome \in {"running", "done", "severity"}) =>
                disk[PathResolve(inv.fileName)] = inv.finalSource

\* a fix-mode invocation on a text that was not the file's on-disk text
\* committed fixes to the linted file in two steps, both changing the text
C19_Witness ==
    /\ Completed(inv)
    /\ inv.text # inv.disk0[PathResolve(inv.fileName)]
    /\ \E j, k \in 1..Len(inv.steps) :
          /\ j < k
          /\ CommitsToLinted(inv, inv.steps[j]) /\ CommitsToLinted(inv, inv.steps[k])
          /\ inv.steps[j].after # inv.steps[j].before
          /\ inv.steps[k].after # inv.steps[j].after
    /\ disk[PathResolve(inv.fileName)] = inv.finalSource
    /\ inv.finalSource # inv.text

(***************************************************************************)
(* C11: two lint invocations that run concurrently and both commit a       *)
(* cross-file fix to the same file interleave at the grain of the read     *)
(* and the write of applyFixes.  Nothing orders them: whenever one reads   *)
(* the file before the other's write and writes after it, the text it      *)
(* writes is the text it read with its own fixes only, so the file ends    *)
(* without the other's edit (a lost update).                               *)
(***************************************************************************)
Reads(e, p, t) == e.proc = p /\ e.op = "read" /\ e.file = t /\ e.ok

Writes(e, p, t) == e.proc = p /\ e.op = "write" /\ e.file = t /\ e.ok

\* events i and k are the read and the write of one cross-file commit of q to
\* file t, and event j, between them, is a write of the other worker to t
Overtaken(i, j, k, t) ==
    /\ i < j /\ j < k
    /\ \E q \in Procs :
          /\ Reads(events[i], q, t)
          /\ Writes(events[k], q, t)
          /\ \A m \in (i + 1)..(k - 1) : events[m].proc # q
          /\ \E p \in Procs \ {q} : Writes(events[j], p, t)

IsLastWrite(k, t) ==
    \A m \in (k + 1)..Len(events) : ~(events[m].op = "write" /\ events[m].file = t /\ events[m].ok)

\* the text the successful writes have left in file t
LastWritten(t) ==
    IF \E k \in 1..Len(events) : events[k].op = "write" /\ events[k].file = t /\ events[k].ok
    THEN LET k == CHOOSE n \in 1..Len(events) :
                      /\ events[n].op = "write" /\ events[n].file = t /\ events[n].ok
                      /\ IsLastWrite(n, t)
         IN  events[k].text
    ELSE InitialDisk[t]

C11_LostUpdate ==
    /\ \A t \in Files : disk[t] = LastWritten(t)
    /\ \A t \in Files : \A i, j, k \in 1..Len(events) :
          Overtaken(i, j, k, t) =>
              /\ events[k].text = ReplacementApplyFixes(events[i].text, events[k].fixes)
              /\ IsLastWrite(k, t) =>
                    disk[t] = ReplacementApplyFixes(events[i].text, events[k].fixes)

\* both invocations completed; the second writer read OtherFile before the
\* first wrote it and wrote after: the first writer's edit, which had changed
\* the file, is gone, and the file is not what either serial order gives
C11_Witness ==
    /\ \A p \in Procs : workers[p].outcome = "done"
    /\ \E i, j, k \in 1..Len(events) :
          /\ Overtaken(i, j, k, OtherFile)
          /\ IsLastWrite(k, OtherFile)
          /\ events[j].text # events[i].text
          /\ disk[OtherFile] = ReplacementApplyFixes(events[i].text, events[k].fixes)
          /\ disk[OtherFile] # ReplacementApplyFixes(events[j].text, events[k].fixes)
          /\ disk[OtherFile] #
                 ReplacementApplyFixes(
                     ReplacementApplyFixes(events[i].text, events[k].fixes),
                     events[j].fixes)

(***************************************************************************)
(* C15: when the read of another file or the write of any file fails       *)
(* during the sweep, the error leaves lint() and nothing is repaired: the  *)
(* edits written before stay on disk, the accumulated fixes hold every     *)
(* fix recorded up to and including the failing rule's, and the            *)
(* accumulated failures are what they were before the invocation.          *)
(***************************************************************************)
RECURSIVE SweptFixes(_, _)
SweptFixes(swept, k) ==
    IF k = 0 THEN <<>> ELSE SweptFixes(swept, k - 1) \o swept[k].fixable

EventsOf(p) == Filter(events, LAMBDA e : e.proc = p)

C15_IoErrorLeavesPartialState ==
    /\ \A t \in Files : disk[t] = LastWritten(t)
    /\ \A p \in Procs :
          LET w == workers[p]
              mine == EventsOf(p)
          IN  /\ (w.outcome = "io") =>
                    /\ w.pc = "done"
                    /\ w.failures = NoWorker.failures
                    /\ w.swept # <<>>
                    /\ w.swept[Len(w.swept)].fixable # <<>>
                    /\ w.fixes = NoWorker.fixes \o SweptFixes(w.swept, Len(w.swept))
                    /\ mine # <<>>
                    /\ ~mine[Len(mine)].ok
              /\ \A n \in 1..Len(mine) : ~mine[n].ok => (n = Len(mine) /\ w.outcome = "io")

\* an invocation that had written another file for an earlier rule failed to
\* write the linted file for a later one: the earlier edit is on disk, the
\* fixes of both rules are recorded, no failure is
C15_Witness ==
    \E p \in Procs :
       LET w == workers[p]
           mine == EventsOf(p)
       IN  /\ w.outcome = "io"
           /\ Len(w.swept) > 1
           /\ Len(w.fixes) > Len(w.swept[1].fixable)
           /\ \E n \in 1..Len(mine) :
                 /\ mine[n].op = "write" /\ mine[n].ok
                 /\ disk[mine[n].file] = mine[n].text
                 /\ disk[mine[n].file] # InitialDisk[mine[n].file]
           /\ ~mine[Len(mine)].ok
           /\ w.failures = <<>>

====
